---- MODULE Spec2Model ----
(***************************************************************************)
(* dir2txt: merge the files of a directory tree into one text document.    *)
(*                                                                         *)
(* Strings are sequences of tokens.  Paths, file contents and the          *)
(* "Not a text file" sentinel are spelled character by character, so that  *)
(* substring search, split, strip and string equality are computed as      *)
(* Python computes them.  A fixed literal of the program that is only ever *)
(* concatenated is one token.  Three glyphs cannot be written in a TLA+    *)
(* string and are spelled differently: the code fence of three backquotes  *)
(* is "~~~", and the box-drawing connectors are "L-- " (corner), "|-- "    *)
(* (tee) and "|   " (vertical bar).                                        *)
(***************************************************************************)
EXTENDS Integers, Sequences, FiniteSets, TLC

VARIABLES
    \* configuration constants of the process (dir2txt.py:12-14)
    READ_COMPRESSED_FILES, LARGE_SIZE_FILE, MAX_LINES_FOR_LARGE_FILE,
    \* the run of main()
    pc, fs, ignore_arg, description, file_list, filtered_files,
    text, idx, content_raw, tmpfiles, out_file, opened, stdout, exc,
    \* direct calls of the pure functions
    fn_pc, fn_paths, fn_ignore, fn_filtered, fn_tree, fn_file, fn_result

vars == <<READ_COMPRESSED_FILES, LARGE_SIZE_FILE, MAX_LINES_FOR_LARGE_FILE,
          pc, fs, ignore_arg, description, file_list, filtered_files,
          text, idx, content_raw, tmpfiles, out_file, opened, stdout, exc,
          fn_pc, fn_paths, fn_ignore, fn_filtered, fn_tree, fn_file, fn_result>>

mainVars == <<pc, fs, ignore_arg, description, file_list, filtered_files,
              text, idx, content_raw, tmpfiles, out_file, opened, stdout, exc>>

fnVars == <<fn_pc, fn_paths, fn_ignore, fn_filtered, fn_tree, fn_file, fn_result>>

cfgVars == <<READ_COMPRESSED_FILES, LARGE_SIZE_FILE, MAX_LINES_FOR_LARGE_FILE>>

\* Python's None, where the other values are strings
None == "None"

\* an optional command line argument (argparse: None when absent)
NoArg == [given |-> FALSE, val |-> <<>>]
Arg(v) == [given |-> TRUE, val |-> v]

\* a value of MAX_LINES_FOR_LARGE_FILE with its Python type
PyInt(n) == [type |-> "int", val |-> n]
PyNone == [type |-> "NoneType", val |-> 0]
PyStr == [type |-> "str", val |-> 0]

(***************************************************************************)
(* Bounds                                                                  *)
(***************************************************************************)
\* longest path list handed to ignores_apply / paths_as_tree directly
MaxPaths == 3
\* longest file content handed to read_file directly, in characters
MaxContent == 4
\* largest LARGE_SIZE_FILE tried, in megabytes
MaxThresholdMB == 2
\* largest positive MAX_LINES_FOR_LARGE_FILE tried
MaxLines == 2
\* most entries in an archive handed to read_archive directly
MaxEntries == 3
\* most files in the directory main walks
MaxFiles == 2

(***************************************************************************)
(* Python str operations                                                   *)
(***************************************************************************)
\* code points of the characters that occur in names
ORD ==
    (" " :> 32) @@ ("," :> 44) @@ ("." :> 46) @@ ("/" :> 47) @@ ("2" :> 50) @@
    ("_" :> 95) @@ ("a" :> 97) @@ ("b" :> 98) @@ ("c" :> 99) @@ ("d" :> 100) @@
    ("e" :> 101) @@ ("g" :> 103) @@ ("i" :> 105) @@ ("k" :> 107) @@
    ("l" :> 108) @@
    ("m" :> 109) @@ ("n" :> 110) @@ ("o" :> 111) @@ ("p" :> 112) @@
    ("r" :> 114) @@ ("s" :> 115) @@ ("t" :> 116) @@ ("u" :> 117) @@
    ("x" :> 120) @@ ("y" :> 121) @@ ("z" :> 122)

\* a < b on str: code point order, a proper prefix is smaller
RECURSIVE str_lt(_, _)
str_lt(a, b) ==
    IF a = <<>> THEN b # <<>>
    ELSE IF b = <<>> THEN FALSE
    ELSE IF Head(a) = Head(b) THEN str_lt(Tail(a), Tail(b))
    ELSE ORD[Head(a)] < ORD[Head(b)]

\* ex in t
str_contains(t, ex) ==
    \E i \in 0..(Len(t) - Len(ex)) : SubSeq(t, i + 1, i + Len(ex)) = ex

\* s.split(sep) for a one-character separator
RECURSIVE str_split(_, _)
str_split(s, sep) ==
    IF \A i \in 1..Len(s) : s[i] # sep THEN <<s>>
    ELSE LET k == CHOOSE i \in 1..Len(s) :
                      s[i] = sep /\ \A j \in 1..(i - 1) : s[j] # sep
         IN <<SubSeq(s, 1, k - 1)>> \o str_split(SubSeq(s, k + 1, Len(s)), sep)

\* s.strip(chars) / s.strip()
str_strip(s, chars) ==
    IF \A i \in 1..Len(s) : s[i] \in chars THEN <<>>
    ELSE LET lo == CHOOSE i \in 1..Len(s) :
                       s[i] \notin chars /\ \A j \in 1..(i - 1) : s[j] \in chars
             hi == CHOOSE i \in 1..Len(s) :
                       s[i] \notin chars /\ \A j \in (i + 1)..Len(s) : s[j] \in chars
         IN SubSeq(s, lo, hi)

\* sep.join(parts)
RECURSIVE str_join(_, _)
str_join(parts, sep) ==
    IF parts = <<>> THEN <<>>
    ELSE IF Len(parts) = 1 THEN parts[1]
    ELSE parts[1] \o sep \o str_join(Tail(parts), sep)

\* s.endswith(suffix)
str_endswith(s, suffix) ==
    /\ Len(s) >= Len(suffix)
    /\ SubSeq(s, Len(s) - Len(suffix) + 1, Len(s)) = suffix

\* the whitespace str.strip() removes
WHITESPACE == {" ", "\n", "\t", "\r"}

\* a sort that puts the largest name first
RECURSIVE sorted_descending(_)
sorted_descending(S) ==
    IF S = {} THEN <<>>
    ELSE LET m == CHOOSE x \in S : \A y \in S : x = y \/ str_lt(y, x)
         IN <<m>> \o sorted_descending(S \ {m})

\* sorted(names): ascending in str order
RECURSIVE sorted(_)
sorted(S) ==
    IF S = {} THEN <<>>
    ELSE LET m == CHOOSE x \in S : \A y \in S : x = y \/ str_lt(x, y)
         IN <<m>> \o sorted(S \ {m})

(***************************************************************************)
(* ignores_apply and the filtering step of main                            *)
(***************************************************************************)
ignores_apply(ignores, targets) ==
    SelectSeq(targets,
              LAMBDA t : ~ \E k \in 1..Len(ignores) : str_contains(t, ignores[k]))

\* main, "if args.ignore: ... else: ..."; the empty string is falsy
filter_files(ignore, files) ==
    IF ignore.given /\ ignore.val # <<>>
    THEN ignores_apply(str_split(ignore.val, ","), files)
    ELSE files

(***************************************************************************)
(* paths_as_tree                                                           *)
(* A dict is a function from its keys to its values; {} is the function    *)
(* with the empty domain.                                                  *)
(***************************************************************************)
EmptyDict == [k \in {} |-> {}]

\* "for part in parts: current = current.setdefault(part, {})"
RECURSIVE tree_insert(_, _)
tree_insert(d, parts) ==
    IF parts = <<>> THEN d
    ELSE LET part == Head(parts)
             sub == IF part \in DOMAIN d THEN d[part] ELSE EmptyDict
         IN [k \in DOMAIN d \cup {part} |->
                IF k = part THEN tree_insert(sub, Tail(parts)) ELSE d[k]]

\* the loop over paths that builds the nested dict
RECURSIVE build_tree(_, _)
build_tree(tree, paths) ==
    IF paths = <<>> THEN tree
    ELSE build_tree(
             tree_insert(tree, str_split(str_strip(Head(paths), {"/"}), "/")),
             Tail(paths))

\* _print_tree: the lines of d and the two counters it increments
RECURSIVE print_tree(_, _)
RECURSIVE print_items(_, _, _, _)
print_items(d, items, i, prefix) ==
    IF i > Len(items) THEN [lines |-> <<>>, dirs |-> 0, files |-> 0]
    ELSE LET name == items[i]
             subtree == d[name]
             last == (i = Len(items))
             connector == IF last THEN "L-- " ELSE "|-- "
             is_dir == DOMAIN subtree # {}
             line == prefix \o <<connector>> \o name
                         \o (IF is_dir THEN <<"/">> ELSE <<>>)
             extension == IF last THEN "    " ELSE "|   "
             below == print_tree(subtree, prefix \o <<extension>>)
             rest == print_items(d, items, i + 1, prefix)
         IN [lines |-> <<line>> \o below.lines \o rest.lines,
             dirs |-> (IF is_dir THEN 1 ELSE 0) + below.dirs + rest.dirs,
             files |-> (IF is_dir THEN 0 ELSE 1) + below.files + rest.files]

print_tree(d, prefix) == print_items(d, sorted(DOMAIN d), 1, prefix)

paths_as_tree(paths) ==
    LET tree == build_tree(EmptyDict, paths)
        walk == print_tree(tree, <<>>)
        output_lines ==
            <<  <<". Files that were selected:\n|">>  >>
            \o walk.lines
            \o << <<"\n", ToString(walk.dirs), " directories, ",
                    ToString(walk.files), " files">> >>
    IN str_join(output_lines, <<"\n">>)

(***************************************************************************)
(* Direct calls of ignores_apply / paths_as_tree (main, lines 237-250,     *)
(* on an arbitrary path list)                                              *)
(***************************************************************************)
P_a_b_txt == <<"a", "/", "b", ".", "t", "x", "t">>
P_a_c_txt == <<"a", "/", "c", ".", "t", "x", "t">>
P_d_txt == <<"d", ".", "t", "x", "t">>
P_a == <<"a">>
P_a_b == <<"a", "/", "b">>
P_slash_a_slash == <<"/", "a", "/">>
P_b_slash_slash_a == <<"b", "/", "/", "a">>
P_src_test_util_go ==
    <<"s", "r", "c", "/", "t", "e", "s", "t", "_", "u", "t", "i", "l", ".", "g", "o">>
P_src_main_go == <<"s", "r", "c", "/", "m", "a", "i", "n", ".", "g", "o">>

PathPool ==
    {P_a_b_txt, P_a_c_txt, P_d_txt, P_a, P_a_b, P_slash_a_slash,
     P_b_slash_slash_a, P_src_test_util_go, P_src_main_go}

\* values of --ignore: absent, "", "test", "test,", "," and ".txt,b"
IgnorePool ==
    {NoArg, Arg(<<>>), Arg(<<"t", "e", "s", "t">>),
     Arg(<<"t", "e", "s", "t", ",">>), Arg(<<",">>),
     Arg(<<".", "t", "x", "t", ",", "b">>)}

PathLists == UNION {[1..n -> PathPool] : n \in 0..MaxPaths}

CallFilter ==
    /\ fn_pc = "start"
    /\ fn_filtered' = filter_files(fn_ignore, fn_paths)
    /\ fn_pc' = "filtered"
    /\ UNCHANGED <<fn_paths, fn_ignore, fn_tree, fn_file, fn_result>>
    /\ UNCHANGED <<cfgVars, mainVars>>

CallPathsAsTree ==
    /\ fn_pc = "filtered"
    /\ fn_tree' = paths_as_tree(fn_filtered)
    /\ fn_pc' = "rendered"
    /\ UNCHANGED <<fn_paths, fn_ignore, fn_filtered, fn_file, fn_result>>
    /\ UNCHANGED <<cfgVars, mainVars>>

(***************************************************************************)
(* Files                                                                   *)
(* A file on disk is a record:                                             *)
(*   exists   os.path.exists (FALSE for a dangling symlink)                *)
(*   size     os.path.getsize, in bytes                                    *)
(*   content  the characters the file decodes to                           *)
(*   bad      0 when every byte decodes; k > 0 when an undecodable byte    *)
(*            sits just before the k-th character (k = Len + 1: at the end)*)
(*   kind     what zipfile.is_zipfile / tarfile.is_tarfile find: "zip",    *)
(*            "tar", "stream" (gzip/bz2/xz data) or "plain"                *)
(*   corrupt  opening the container or the stream fails                    *)
(*   members  the entries of the container: name, content, size, isfile,   *)
(*            and fault: "none", "extract" (reading the entry out of the   *)
(*            container raises) or "write" (writing its text to the        *)
(*            temporary file raises)                                       *)
(***************************************************************************)
MB == 1024 * 1024

SENTINEL ==
    <<"N", "o", "t", " ", "a", " ", "t", "e", "x", "t", " ", "f", "i", "l", "e">>

Returned(v) == [exc |-> None, value |-> v]
Raised(e) == [exc |-> e, value |-> <<>>]

\* a threshold test that counts a file of exactly the threshold as large
file_is_large_inclusive(f, threshold_mb) ==
    f.exists /\ f.size >= threshold_mb * 1024 * 1024

file_is_large(f, threshold_mb) ==
    IF f.exists
    THEN (IF f.size > threshold_mb * 1024 * 1024 THEN TRUE ELSE FALSE)
    ELSE FALSE

\* the lines a text file yields, each with its line terminator
RECURSIVE file_lines(_)
file_lines(content) ==
    IF content = <<>> THEN <<>>
    ELSE IF \A i \in 1..Len(content) : content[i] # "\n" THEN <<content>>
    ELSE LET k == CHOOSE i \in 1..Len(content) :
                      content[i] = "\n" /\ \A j \in 1..(i - 1) : content[j] # "\n"
         IN <<SubSeq(content, 1, k)>>
                \o file_lines(SubSeq(content, k + 1, Len(content)))

RECURSIVE total_len(_)
total_len(ls) == IF ls = <<>> THEN 0 ELSE Len(Head(ls)) + total_len(Tail(ls))

strip_each(ls) == [i \in 1..Len(ls) |-> str_strip(ls[i], WHITESPACE)]

\* open(file_path, "r") of a path that does not exist
open_fails(f) == ~ f.exists

\* read_file.read_line_by_line: the whole file is decoded
read_line_by_line(f) ==
    IF open_fails(f) THEN {Raised("FileNotFoundError")}
    ELSE IF f.bad # 0 THEN {Raised("UnicodeDecodeError")}
    ELSE {Returned(str_join(strip_each(file_lines(f.content)), <<"\n">>))}

\* read_file.read_all
read_all(f) ==
    IF open_fails(f) THEN {Raised("FileNotFoundError")}
    ELSE IF f.bad # 0 THEN {Raised("UnicodeDecodeError")}
    ELSE {Returned(f.content)}

\* read_file.read_n_lines_from_file.  The decoder works on buffered chunks:
\* an undecodable byte inside the lines read, or anywhere when the loop ran
\* into the end of the file, raises; one further on raises only if it fell
\* into a chunk that was read.
read_n_lines_from_file(f, n) ==
    LET all == file_lines(f.content)
        got == SubSeq(all, 1, IF n < Len(all) THEN n ELSE Len(all))
        result == str_join(strip_each(got), <<"\n">>)
                      \o <<"\n...\nThere are only ", ToString(n),
                           " lines of the file.">>
        hit_eof == n > Len(all)
    IN IF open_fails(f) THEN {Raised("FileNotFoundError")}
       ELSE IF f.bad = 0 THEN {Returned(result)}
       ELSE IF hit_eof \/ f.bad <= total_len(got)
            THEN {Raised("UnicodeDecodeError")}
       ELSE {Raised("UnicodeDecodeError"), Returned(result)}

\* the set of outcomes of read_file(file_path, line_by_line)
read_file(f, line_by_line) ==
    IF file_is_large(f, LARGE_SIZE_FILE)
    THEN IF MAX_LINES_FOR_LARGE_FILE = PyInt(0)
         THEN {Returned(<<"The file could not be read.\n">>)}
         ELSE IF MAX_LINES_FOR_LARGE_FILE.type = "int"
                 /\ MAX_LINES_FOR_LARGE_FILE.val > 0
         THEN read_n_lines_from_file(f, MAX_LINES_FOR_LARGE_FILE.val)
         ELSE IF MAX_LINES_FOR_LARGE_FILE = PyNone
         THEN read_line_by_line(f)
         ELSE {Returned(<<"The file was skipped. The file was larger than ",
                          ToString(LARGE_SIZE_FILE),
                          "MB and it was not specified how many lines to read from it.">>)}
    ELSE LET tried == IF line_by_line THEN read_line_by_line(f) ELSE read_all(f)
         IN {IF r.exc = "UnicodeDecodeError" THEN Returned(SENTINEL) ELSE r :
                r \in tried}

(***************************************************************************)
(* Archives                                                                *)
(***************************************************************************)
inspect_archive(path, f) ==
    IF f.kind = "zip" THEN "zip"
    ELSE IF f.kind = "tar" THEN "tar"
    ELSE IF str_endswith(path, <<".", "g", "z">>) THEN "gz"
    ELSE IF str_endswith(path, <<".", "b", "z", "2">>) THEN "bz2"
    ELSE IF str_endswith(path, <<".", "x", "z">>) THEN "xz"
    ELSE None

\* tempfile.NamedTemporaryFile("w+", delete=False) after write and flush
temp_file(content, size) ==
    [exists |-> TRUE, size |-> size, content |-> content, bad |-> 0,
     kind |-> "plain", corrupt |-> FALSE, members |-> <<>>]

\* read_file(tmp.name): a temporary file holds text, it has one outcome
read_temp(tmp) == (CHOOSE r \in read_file(tmp, FALSE) : TRUE).value

section(label, body) == <<"\n## ">> \o label \o <<"\n">> \o body \o <<"\n">>

\* read_archive, zip branch: the loop over z.namelist() from entry i on
RECURSIVE read_zip(_, _, _)
read_zip(path, members, i) ==
    IF i > Len(members) THEN [parts |-> <<>>, tmps |-> <<>>]
    ELSE LET m == members[i]
             label == path \o <<" -> ">> \o m.name
             tmp == temp_file(m.content, m.size)
             rest == read_zip(path, members, i + 1)
         IN IF m.fault = "none"
            THEN [parts |-> <<section(label, read_temp(tmp))>> \o rest.parts,
                  tmps |-> <<tmp>> \o rest.tmps]
            ELSE [parts |-> << <<"\n## ">> \o label \o <<"\n[Unreadable file]\n">> >>
                                \o rest.parts,
                  tmps |-> (IF m.fault = "write" THEN <<temp_file(<<>>, 0)>>
                            ELSE <<>>) \o rest.tmps]

\* read_archive, tar branch: the loop over tfile.getmembers() from entry i
\* on; an exception leaves the loop for the handler of line 89
RECURSIVE read_tar(_, _, _)
read_tar(path, members, i) ==
    IF i > Len(members) THEN [parts |-> <<>>, tmps |-> <<>>, exc |-> FALSE]
    ELSE LET m == members[i]
             label == path \o <<" -> ">> \o m.name
             tmp == temp_file(m.content, m.size)
             rest == read_tar(path, members, i + 1)
         IN IF ~ m.isfile THEN rest
            ELSE IF m.fault # "none"
            THEN [parts |-> <<>>,
                  tmps |-> IF m.fault = "write" THEN <<temp_file(<<>>, 0)>>
                           ELSE <<>>,
                  exc |-> TRUE]
            ELSE [parts |-> <<section(label, read_temp(tmp))>> \o rest.parts,
                  tmps |-> <<tmp>> \o rest.tmps,
                  exc |-> rest.exc]

ERROR_READING == <<"[Error reading archive: ", "e", "]">>

\* read_archive: the text returned and the temporary files left on disk
read_archive(path, f) ==
    LET t == inspect_archive(path, f)
        head == <<"## Archive content of ">> \o path \o <<" (", t, ")">>
        done(parts, tmps) ==
            [out |-> str_join(<<head>> \o parts, <<"\n">>), tmps |-> tmps]
    IN IF t = None
       THEN [out |-> <<"## Unsupported archive format\n">>, tmps |-> <<>>]
       ELSE IF f.corrupt \/ (t \notin {"zip", "tar"} /\ f.kind # "stream")
       THEN done(<<ERROR_READING>>, <<>>)
       ELSE IF t = "zip"
       THEN LET z == read_zip(path, f.members, 1)
            IN done(z.parts, z.tmps)
       ELSE IF t = "tar"
       THEN LET r == read_tar(path, f.members, 1)
            IN done(r.parts \o (IF r.exc THEN <<ERROR_READING>> ELSE <<>>), r.tmps)
       ELSE LET m == f.members[1]
                tmp == temp_file(m.content, m.size)
            IN done(<<section(path \o <<" (decompressed)">>, read_temp(tmp))>>,
                    <<tmp>>)

(***************************************************************************)
(* make_text_from_files                                                    *)
(***************************************************************************)
\* the block of one file, lines 197-207: the text put under the path and the
\* temporary files read_archive leaves behind
file_content_of(file, f, raw) ==
    IF raw = SENTINEL
    THEN IF inspect_archive(file, f) # None
         THEN IF READ_COMPRESSED_FILES
              THEN LET r == read_archive(file, f)
                   IN [content |-> <<"\n~~~\n">> \o r.out \o <<"\n~~~\n">>,
                       tmps |-> r.tmps]
              ELSE [content |-> <<"~Archive skipped~\n">>, tmps |-> <<>>]
         ELSE [content |-> <<"\n~~~\n">> \o SENTINEL \o <<"\n~~~\n">>,
               tmps |-> <<>>]
    ELSE [content |-> <<"\n~~~\n">> \o raw \o <<"\n~~~\n">>, tmps |-> <<>>]

\* a version of line 209 that leaves out the files that are not text
append_block_text_only(t, file, file_content) ==
    IF file_content = <<"\n~~~\n">> \o SENTINEL \o <<"\n~~~\n">>
    THEN t
    ELSE t \o file \o <<"\n">> \o file_content \o <<"---\n\n">>

\* text += f"{file}\n{file_content}---\n\n"
append_block(t, file, file_content) ==
    t \o file \o <<"\n">> \o file_content \o <<"---\n\n">>

(***************************************************************************)
(* main                                                                    *)
(* fs is the tree under the input directory as os.walk enumerates it: a    *)
(* sequence of entries with the directory (root), the file name and the    *)
(* file.  out_file is the content of the output file, opened the number    *)
(* of times it was opened for writing, stdout the strings printed.         *)
(***************************************************************************)
ScriptName == <<"d", "i", "r", "2", "t", "x", "t", ".", "p", "y">>

os_path_join(root, name) ==
    IF root # <<>> /\ root[Len(root)] = "/" THEN root \o name
    ELSE root \o <<"/">> \o name

PathOf(e) == os_path_join(e.root, e.name)

\* the file a path of the walk names
file_at(path) ==
    (CHOOSE e \in {fs[i] : i \in 1..Len(fs)} : PathOf(e) = path).file

OLD_OUTPUT == <<"old">>

\* lines 229-235
Walk ==
    /\ pc = "start"
    /\ file_list' =
           LET kept == SelectSeq(fs, LAMBDA e : ScriptName # e.name)
           IN [i \in 1..Len(kept) |-> PathOf(kept[i])]
    /\ pc' = "walked"
    /\ UNCHANGED <<fs, ignore_arg, description, filtered_files, text, idx,
                   content_raw, tmpfiles, out_file, opened, stdout, exc>>
    /\ UNCHANGED <<cfgVars, fnVars>>

\* lines 237-240
Filter ==
    /\ pc = "walked"
    /\ filtered_files' = filter_files(ignore_arg, file_list)
    /\ pc' = "filtered"
    /\ UNCHANGED <<fs, ignore_arg, description, file_list, text, idx,
                   content_raw, tmpfiles, out_file, opened, stdout, exc>>
    /\ UNCHANGED <<cfgVars, fnVars>>

\* make_text_from_files, lines 189-191
AssembleStart ==
    /\ pc = "filtered"
    /\ text' = <<"Project structure\n\n">> \o paths_as_tree(filtered_files)
                   \o <<"\n\n", "---\n\n">>
    /\ idx' = 1
    /\ pc' = "assembling"
    /\ UNCHANGED <<fs, ignore_arg, description, file_list, filtered_files,
                   content_raw, tmpfiles, out_file, opened, stdout, exc>>
    /\ UNCHANGED <<cfgVars, fnVars>>

\* make_text_from_files, one turn of the loop of lines 193-209
AssembleFile ==
    /\ pc = "assembling"
    /\ idx <= Len(filtered_files)
    /\ LET file == filtered_files[idx]
           f == file_at(file)
       IN \E r \in read_file(f, FALSE) :
             IF r.exc # None
             THEN /\ pc' = "crashed"
                  /\ exc' = r.exc
                  /\ UNCHANGED <<text, idx, content_raw, tmpfiles>>
             ELSE LET fc == file_content_of(file, f, r.value)
                  IN /\ content_raw' = r.value
                     /\ text' = append_block(text, file, fc.content)
                     /\ tmpfiles' = tmpfiles \o fc.tmps
                     /\ idx' = idx + 1
                     /\ UNCHANGED <<pc, exc>>
    /\ UNCHANGED <<fs, ignore_arg, description, file_list, filtered_files,
                   out_file, opened, stdout>>
    /\ UNCHANGED <<cfgVars, fnVars>>

\* make_text_from_files, lines 211-214, with the argument main passes
AssembleEnd ==
    /\ pc = "assembling"
    /\ idx > Len(filtered_files)
    /\ text' = IF description.given /\ description.val # <<>>
               THEN text \o <<"Description\n\n">> \o description.val \o <<"\n">>
               ELSE text
    /\ pc' = "assembled"
    /\ UNCHANGED <<fs, ignore_arg, description, file_list, filtered_files, idx,
                   content_raw, tmpfiles, out_file, opened, stdout, exc>>
    /\ UNCHANGED <<cfgVars, fnVars>>

\* lines 246-247: open(args.file, "w") truncates, f.write(text) fills; the
\* open may fail (unwritable path) and so may the write (disk full)
WriteOutput ==
    /\ pc = "assembled"
    /\ \E outcome \in {"ok", "open fails", "write fails"} :
          /\ opened' = IF outcome = "open fails" THEN opened ELSE opened + 1
          /\ out_file' = IF outcome = "ok" THEN text
                         ELSE IF outcome = "open fails" THEN out_file
                         ELSE <<>>
          /\ pc' = IF outcome = "ok" THEN "written" ELSE "crashed"
          /\ exc' = IF outcome = "ok" THEN exc ELSE "OSError"
    /\ UNCHANGED <<fs, ignore_arg, description, file_list, filtered_files,
                   text, idx, content_raw, tmpfiles, stdout>>
    /\ UNCHANGED <<cfgVars, fnVars>>

NOTICE == <<"+ It was written on ", "args.file", ".">>

\* a notice that does not wait for the output file
PrintNotice_early ==
    /\ pc \in {"assembled", "written"}
    /\ stdout' = Append(stdout, NOTICE)
    /\ pc' = "noticed"
    /\ UNCHANGED <<fs, ignore_arg, description, file_list, filtered_files,
                   text, idx, content_raw, tmpfiles, out_file, opened, exc>>
    /\ UNCHANGED <<cfgVars, fnVars>>

\* line 248
PrintNotice ==
    /\ pc = "written"
    /\ stdout' = Append(stdout, NOTICE)
    /\ pc' = "noticed"
    /\ UNCHANGED <<fs, ignore_arg, description, file_list, filtered_files,
                   text, idx, content_raw, tmpfiles, out_file, opened, exc>>
    /\ UNCHANGED <<cfgVars, fnVars>>

\* line 250
PrintTree ==
    /\ pc = "noticed"
    /\ stdout' = Append(stdout, paths_as_tree(filtered_files))
    /\ pc' = "done"
    /\ UNCHANGED <<fs, ignore_arg, description, file_list, filtered_files,
                   text, idx, content_raw, tmpfiles, out_file, opened, exc>>
    /\ UNCHANGED <<cfgVars, fnVars>>

(***************************************************************************)
(* Initial values shared by the specifications                             *)
(***************************************************************************)
DefaultCfg ==
    /\ READ_COMPRESSED_FILES = TRUE
    /\ LARGE_SIZE_FILE = 10
    /\ MAX_LINES_FOR_LARGE_FILE = PyInt(1000)

MainIdle ==
    /\ pc = "idle"
    /\ fs = <<>>
    /\ ignore_arg = NoArg
    /\ description = NoArg
    /\ file_list = <<>>
    /\ filtered_files = <<>>
    /\ text = <<>>
    /\ idx = 0
    /\ content_raw = <<>>
    /\ tmpfiles = <<>>
    /\ out_file = <<>>
    /\ opened = 0
    /\ stdout = <<>>
    /\ exc = None

FnIdle ==
    /\ fn_pc = "idle"
    /\ fn_paths = <<>>
    /\ fn_ignore = NoArg
    /\ fn_filtered = <<>>
    /\ fn_tree = <<>>
    /\ fn_file = temp_file(<<>>, 0)
    /\ fn_result = Returned(<<>>)

(***************************************************************************)
(* SpecPaths: main's filtering and tree printing on every path list        *)
(***************************************************************************)
InitPaths ==
    /\ DefaultCfg
    /\ MainIdle
    /\ fn_pc = "start"
    /\ fn_paths \in PathLists
    /\ fn_ignore \in IgnorePool
    /\ fn_filtered = <<>>
    /\ fn_tree = <<>>
    /\ fn_file = temp_file(<<>>, 0)
    /\ fn_result = Returned(<<>>)

NextPaths == CallFilter \/ CallPathsAsTree

SpecPaths == InitPaths /\ [][NextPaths]_vars

(***************************************************************************)
(* SpecRead: read_file on every small file and large-file policy           *)
(***************************************************************************)
ContentChars == {"x", " ", "\n"}

Contents == UNION {[1..n -> ContentChars] : n \in 0..MaxContent}

\* the values MAX_LINES_FOR_LARGE_FILE is set to
LinePolicies ==
    {PyNone, PyStr, PyInt(0), PyInt(0 - 1)} \cup {PyInt(n) : n \in 1..MaxLines}

SizesAround(threshold_mb) ==
    {threshold_mb * MB - 1, threshold_mb * MB, threshold_mb * MB + 1}

PlainFile(exists, size, content, bad) ==
    [exists |-> exists, size |-> size, content |-> content, bad |-> bad,
     kind |-> "plain", corrupt |-> FALSE, members |-> <<>>]

InitRead ==
    /\ READ_COMPRESSED_FILES = TRUE
    /\ LARGE_SIZE_FILE \in 1..MaxThresholdMB
    /\ MAX_LINES_FOR_LARGE_FILE \in LinePolicies
    /\ MainIdle
    /\ fn_pc = "start"
    /\ fn_paths = <<>>
    /\ fn_ignore = NoArg
    /\ fn_filtered = <<>>
    /\ fn_tree = <<>>
    /\ \E size \in SizesAround(LARGE_SIZE_FILE) :
          \/ fn_file = PlainFile(FALSE, size, <<>>, 0)
          \/ \E content \in Contents : \E bad \in 0..(Len(content) + 1) :
                fn_file = PlainFile(TRUE, size, content, bad)
    /\ fn_result = Returned(<<>>)

CallReadFile ==
    /\ fn_pc = "start"
    /\ \E r \in read_file(fn_file, FALSE) :
          /\ fn_result' = r
          /\ fn_pc' = IF r.exc = None THEN "returned" ELSE "raised"
    /\ UNCHANGED <<fn_paths, fn_ignore, fn_filtered, fn_tree, fn_file>>
    /\ UNCHANGED <<cfgVars, mainVars>>

NextRead == CallReadFile

SpecRead == InitRead /\ [][NextRead]_vars

(***************************************************************************)
(* SpecArchive: read_archive on every small archive                        *)
(***************************************************************************)
P_z_zip == <<"z", ".", "z", "i", "p">>
P_t_tar == <<"t", ".", "t", "a", "r">>
P_g_gz == <<"g", ".", "g", "z">>
P_p == <<"p">>

EntryName(i) == <<"e", ToString(i)>>

\* the i-th entry of an archive
Entries(i, threshold_mb) ==
    {[name |-> EntryName(i), content |-> <<"x", "\n">>, size |-> size,
      fault |-> fault, isfile |-> isfile] :
        size \in {2, threshold_mb * MB + 1},
        fault \in {"none", "extract", "write"}, isfile \in BOOLEAN}

EntryLists(threshold_mb) ==
    UNION {{ms \in [1..n -> UNION {Entries(i, threshold_mb) : i \in 1..n}] :
               \A i \in 1..n : ms[i].name = EntryName(i)} : n \in 1..MaxEntries}

Container(kind, corrupt, members) ==
    [exists |-> TRUE, size |-> 100, content |-> <<>>, bad |-> 1,
     kind |-> kind, corrupt |-> corrupt, members |-> members]

InitArchive ==
    /\ READ_COMPRESSED_FILES = TRUE
    /\ LARGE_SIZE_FILE = 10
    /\ MAX_LINES_FOR_LARGE_FILE \in {PyNone, PyInt(0), PyInt(1)}
    /\ MainIdle
    /\ fn_pc = "start"
    /\ fn_ignore = NoArg
    /\ fn_filtered = <<>>
    /\ fn_tree = <<>>
    /\ fn_result = Returned(<<>>)
    /\ \E corrupt \in BOOLEAN : \E ms \in EntryLists(LARGE_SIZE_FILE) :
          \* z.namelist() has no notion of a non-file entry
          \/ /\ \A i \in 1..Len(ms) : ms[i].isfile
             /\ fn_paths = <<P_z_zip>>
             /\ fn_file = Container("zip", corrupt, ms)
          \/ /\ fn_paths = <<P_t_tar>>
             /\ fn_file = Container("tar", corrupt, ms)
          \* one payload; the file may also be no compressed stream at all
          \/ /\ Len(ms) = 1 /\ ms[1].isfile /\ ms[1].fault = "none"
             /\ fn_paths = <<P_g_gz>>
             /\ \/ fn_file = Container("stream", corrupt, ms)
                \/ fn_file = PlainFile(TRUE, 100, <<>>, 1)
          \/ /\ Len(ms) = 1 /\ ms[1].isfile /\ ms[1].fault = "none" /\ ~ corrupt
             /\ fn_paths = <<P_p>>
             /\ fn_file = PlainFile(TRUE, 100, <<>>, 1)

CallReadArchive ==
    /\ fn_pc = "start"
    /\ LET r == read_archive(fn_paths[1], fn_file)
       IN /\ fn_result' = Returned(r.out)
          /\ tmpfiles' = tmpfiles \o r.tmps
    /\ fn_pc' = "returned"
    /\ UNCHANGED <<fn_paths, fn_ignore, fn_filtered, fn_tree, fn_file>>
    /\ UNCHANGED cfgVars
    /\ UNCHANGED <<pc, fs, ignore_arg, description, file_list, filtered_files,
                   text, idx, content_raw, out_file, opened, stdout, exc>>

NextArchive == CallReadArchive

SpecArchive == InitArchive /\ [][NextArchive]_vars

(***************************************************************************)
(* Spec: a run of main over a small directory                              *)
(***************************************************************************)
D == <<"d">>
D_S == <<"d", "/", "s">>
X_NL == <<"x", "\n">>

Entry(size, fault) ==
    [content |-> X_NL, size |-> size, fault |-> fault, isfile |-> TRUE]

ThreeEntries ==
    << [name |-> EntryName(1)] @@ Entry(2, "none"),
       [name |-> EntryName(2)] @@ Entry(2, "extract"),
       [name |-> EntryName(3)] @@ Entry(10 * MB + 1, "none") >>

\* the files the directory is made of
DirPool ==
    { \* text files; two of them hold exactly the words "Not a text file"
      [root |-> D_S, name |-> <<"a">>, file |-> PlainFile(TRUE, 2, X_NL, 0)],
      [root |-> D, name |-> <<"n">>, file |-> PlainFile(TRUE, 15, SENTINEL, 0)],
      [root |-> D, name |-> <<"n", ".", "g", "z">>,
       file |-> PlainFile(TRUE, 15, SENTINEL, 0)],
      [root |-> D, name |-> ScriptName, file |-> PlainFile(TRUE, 2, X_NL, 0)],
      \* a binary file, a large text file, a large binary file
      [root |-> D, name |-> <<"b">>, file |-> PlainFile(TRUE, 1, <<>>, 1)],
      [root |-> D, name |-> <<"l">>,
       file |-> PlainFile(TRUE, 10 * MB + 1, <<" ", "x", "\n", "x", "\n">>, 0)],
      [root |-> D, name |-> <<"m">>,
       file |-> PlainFile(TRUE, 10 * MB + 1, <<"x", "\n", "x", "\n">>, 3)],
      \* a dangling symbolic link
      [root |-> D, name |-> <<"k">>, file |-> PlainFile(FALSE, 0, <<>>, 0)],
      \* archives
      [root |-> D, name |-> P_z_zip, file |-> Container("zip", FALSE, ThreeEntries)],
      [root |-> D, name |-> <<"c", ".", "z", "i", "p">>,
       file |-> Container("zip", TRUE, ThreeEntries)],
      [root |-> D, name |-> P_t_tar, file |-> Container("tar", FALSE, ThreeEntries)],
      [root |-> D, name |-> P_g_gz,
       file |-> Container("stream", FALSE, SubSeq(ThreeEntries, 1, 1))] }

Directories ==
    UNION {{d \in [1..n -> DirPool] :
               \A i, j \in 1..n : i # j => d[i] # d[j]} : n \in 0..MaxFiles}

Init ==
    /\ READ_COMPRESSED_FILES \in BOOLEAN
    /\ LARGE_SIZE_FILE = 10
    /\ MAX_LINES_FOR_LARGE_FILE \in {PyNone, PyInt(0), PyInt(1)}
    /\ pc = "start"
    /\ fs \in Directories
    /\ ignore_arg \in {NoArg, Arg(<<".", "g", "z">>)}
    /\ description \in {NoArg, Arg(<<"h", "i">>)}
    /\ file_list = <<>>
    /\ filtered_files = <<>>
    /\ text = <<>>
    /\ idx = 0
    /\ content_raw = <<>>
    /\ tmpfiles = <<>>
    /\ out_file = OLD_OUTPUT
    /\ opened = 0
    /\ stdout = <<>>
    /\ exc = None
    /\ FnIdle

Next ==
    \/ Walk
    \/ Filter
    \/ AssembleStart
    \/ AssembleFile
    \/ AssembleEnd
    \/ WriteOutput
    \/ PrintNotice
    \/ PrintTree

Spec == Init /\ [][Next]_vars

(***************************************************************************)
(* Claims about paths_as_tree and ignores_apply (SpecPaths)                *)
(***************************************************************************)
\* a split path without its leading and trailing empty segments
NormSegments(s) ==
    IF \A i \in 1..Len(s) : s[i] = <<>> THEN << <<>> >>
    ELSE LET lo == CHOOSE i \in 1..Len(s) :
                       s[i] # <<>> /\ \A j \in 1..(i - 1) : s[j] = <<>>
             hi == CHOOSE i \in 1..Len(s) :
                       s[i] # <<>> /\ \A j \in (i + 1)..Len(s) : s[j] = <<>>
         IN SubSeq(s, lo, hi)

\* the set of segment sequences of a path list
SegmentSet(paths) ==
    {NormSegments(str_split(paths[i], "/")) : i \in 1..Len(paths)}

\* the distinct segment prefixes
PrefixesOf(SS) ==
    UNION {{SubSeq(seg, 1, k) : k \in 1..Len(seg)} : seg \in SS}

ChildrenOf(nodes, n) ==
    {m \in nodes : Len(m) = Len(n) + 1 /\ SubSeq(m, 1, Len(n)) = n}

IsLastSibling(nodes, n) ==
    \A m \in ChildrenOf(nodes, SubSeq(n, 1, Len(n) - 1)) :
        m = n \/ str_lt(m[Len(m)], n[Len(n)])

\* depth-first order with siblings in lexicographic order
RECURSIVE NodeBefore(_, _)
NodeBefore(m, n) ==
    IF m = <<>> THEN n # <<>>
    ELSE IF n = <<>> THEN FALSE
    ELSE IF Head(m) = Head(n) THEN NodeBefore(Tail(m), Tail(n))
    ELSE str_lt(Head(m), Head(n))

RECURSIVE NodesInOrder(_)
NodesInOrder(nodes) ==
    IF nodes = {} THEN <<>>
    ELSE LET first == CHOOSE n \in nodes :
                          \A m \in nodes : m = n \/ NodeBefore(n, m)
         IN <<first>> \o NodesInOrder(nodes \ {first})

ExpectedLine(nodes, n) ==
    [k \in 1..(Len(n) - 1) |->
        IF IsLastSibling(nodes, SubSeq(n, 1, k)) THEN "    " ELSE "|   "]
    \o <<IF IsLastSibling(nodes, n) THEN "L-- " ELSE "|-- ">>
    \o n[Len(n)]
    \o (IF ChildrenOf(nodes, n) # {} THEN <<"/">> ELSE <<>>)

ExpectedTree(SS) ==
    LET nodes == PrefixesOf(SS)
        order == NodesInOrder(nodes)
        ndirs == Cardinality({n \in nodes : ChildrenOf(nodes, n) # {}})
        nfiles == Cardinality({n \in nodes : ChildrenOf(nodes, n) = {}})
    IN str_join(
           << <<". Files that were selected:\n|">> >>
           \o [i \in 1..Len(order) |-> ExpectedLine(nodes, order[i])]
           \o << <<"\n", ToString(ndirs), " directories, ",
                   ToString(nfiles), " files">> >>,
           <<"\n">>)

Tree_abcd ==
    <<". Files that were selected:\n|", "\n",
      "|-- ", "a", "/", "\n",
      "|   ", "|-- ", "b", ".", "t", "x", "t", "\n",
      "|   ", "L-- ", "c", ".", "t", "x", "t", "\n",
      "L-- ", "d", ".", "t", "x", "t", "\n",
      "\n", "1", " directories, ", "3", " files">>

Tree_a_ab ==
    <<". Files that were selected:\n|", "\n",
      "L-- ", "a", "/", "\n",
      "    ", "L-- ", "b", "\n",
      "\n", "1", " directories, ", "1", " files">>

\* C7: the tree paths_as_tree renders is the one determined by the set of
\* segment sequences of the paths alone: one line per distinct segment
\* prefix, depth first with siblings in lexicographic order, a trailing "/"
\* exactly on the nodes that have a child, and a summary line counting the
\* nodes with and without a child; ["a/b.txt", "a/c.txt", "d.txt"] gives
\* a/ before d.txt and "1 directories, 3 files", and ["a", "a/b"] shows a as
\* a directory in either order.
C7_TreeFromSegmentSet ==
    fn_pc = "rendered" =>
        /\ fn_tree = ExpectedTree(SegmentSet(fn_filtered))
        /\ fn_filtered = <<P_a_b_txt, P_a_c_txt, P_d_txt>> => fn_tree = Tree_abcd
        /\ fn_filtered \in {<<P_a, P_a_b>>, <<P_a_b, P_a>>} => fn_tree = Tree_a_ab

C7_Witness ==
    /\ fn_pc = "rendered"
    /\ fn_filtered = <<P_d_txt, P_a_c_txt, P_a_b_txt>>
    /\ fn_tree = Tree_abcd

\* ex occurs in t as a substring of at least one character
Occurs(ex, t) ==
    \E i \in 1..Len(t) : \E j \in i..Len(t) : SubSeq(t, i, j) = ex

\* C8: filtering keeps exactly the paths in which none of the ignore
\* substrings occurs, in their original order; in particular an empty
\* substring left by a trailing comma of --ignore removes no path.
C8_KeepsPathsWithoutIgnoredSubstring ==
    fn_pc \in {"filtered", "rendered"} =>
        LET ignores == IF fn_ignore.given
                       THEN str_split(fn_ignore.val, ",") ELSE <<>>
        IN fn_filtered =
               SelectSeq(fn_paths,
                         LAMBDA t : ~ \E k \in 1..Len(ignores) :
                                        Occurs(ignores[k], t))

(***************************************************************************)
(* Claims about read_file (SpecRead)                                       *)
(***************************************************************************)
\* C2: read_file never raises a decoding error, whatever the large-file
\* policy: a file that does not decode yields the "Not a text file" sentinel.
C2_DecodeFailureGivesSentinel ==
    /\ fn_result.exc # "UnicodeDecodeError"
    /\ (fn_pc = "returned" /\ fn_file.bad # 0 /\ fn_file.size <= LARGE_SIZE_FILE * MB)
           => fn_result.value = SENTINEL

\* a line without its trailing whitespace
rstrip(line) ==
    IF \A i \in 1..Len(line) : line[i] \in WHITESPACE THEN <<>>
    ELSE LET hi == CHOOSE i \in 1..Len(line) :
                       /\ line[i] \notin WHITESPACE
                       /\ \A j \in (i + 1)..Len(line) : line[j] \in WHITESPACE
         IN SubSeq(line, 1, hi)

\* the lines of a text: the pieces between line terminators
TextLines(content) ==
    LET pieces == str_split(content, "\n")
    IN IF pieces[Len(pieces)] = <<>>
       THEN SubSeq(pieces, 1, Len(pieces) - 1) ELSE pieces

\* C5: for a text file over the threshold and a positive max-lines N,
\* read_file returns the first min(N, L) lines, each without its trailing
\* whitespace and with its leading whitespace kept, joined by newlines,
\* followed by the footer naming N.
C5_FirstLinesRightTrimmed ==
    (/\ fn_pc = "returned"
     /\ fn_file.exists /\ fn_file.bad = 0
     /\ fn_file.size > LARGE_SIZE_FILE * MB
     /\ MAX_LINES_FOR_LARGE_FILE.type = "int"
     /\ MAX_LINES_FOR_LARGE_FILE.val > 0) =>
        LET n == MAX_LINES_FOR_LARGE_FILE.val
            ls == TextLines(fn_file.content)
            k == IF n < Len(ls) THEN n ELSE Len(ls)
        IN fn_result.value =
               str_join([i \in 1..k |-> rstrip(ls[i])], <<"\n">>)
               \o <<"\n...\nThere are only ", ToString(n), " lines of the file.">>

\* C6: the large-file test is a strict comparison on the size in bytes: a
\* file is large exactly when its size exceeds LARGE_SIZE_FILE * 1024 * 1024;
\* a file of exactly that size is read in full by the normal path, and a
\* file one byte larger is handled by the large-file policy.
C6_StrictThreshold ==
    /\ fn_file.exists =>
           (file_is_large(fn_file, LARGE_SIZE_FILE)
                <=> fn_file.size > LARGE_SIZE_FILE * 1048576)
    /\ (fn_pc # "start" /\ fn_file.exists
            /\ fn_file.size = LARGE_SIZE_FILE * 1048576) =>
           fn_result = Returned(IF fn_file.bad = 0 THEN fn_file.content
                                ELSE SENTINEL)
    /\ (fn_pc # "start" /\ fn_file.exists
            /\ fn_file.size = LARGE_SIZE_FILE * 1048576 + 1) =>
           /\ MAX_LINES_FOR_LARGE_FILE = PyInt(0)
                  => fn_result = Returned(<<"The file could not be read.\n">>)
           /\ (MAX_LINES_FOR_LARGE_FILE.type = "int"
                   /\ MAX_LINES_FOR_LARGE_FILE.val > 0 /\ fn_pc = "returned")
                  => str_contains(fn_result.value, <<"\n...\nThere are only ">>)
           /\ MAX_LINES_FOR_LARGE_FILE \in {PyStr, PyInt(0 - 1)}
                  => /\ fn_pc = "returned"
                     /\ fn_result.value[1] =
                            "The file was skipped. The file was larger than "
           /\ fn_result.value # SENTINEL

C6_Witness ==
    /\ fn_pc = "returned"
    /\ fn_file.exists /\ fn_file.bad = 0
    /\ fn_file.size = LARGE_SIZE_FILE * 1048576
    /\ MAX_LINES_FOR_LARGE_FILE = PyInt(0)
    /\ fn_file.content = <<" ", "x", "\n", "x">>
    /\ fn_result.value = fn_file.content

(***************************************************************************)
(* Claims about read_archive (SpecArchive)                                 *)
(***************************************************************************)
\* the entries read_archive is to process
Processed(f, i) == f.kind = "zip" \/ f.members[i].isfile

EntryLabel(path, f, i) == path \o <<" -> ">> \o f.members[i].name

\* C3: in a zip or tar archive, an entry that cannot be extracted is
\* reported as "[Unreadable file]" and every later entry still has its own
\* labelled section.
C3_EntryFailureDoesNotEndArchive ==
    (fn_pc = "returned" /\ fn_file.kind \in {"zip", "tar"} /\ ~ fn_file.corrupt) =>
        \A i \in 1..Len(fn_file.members) :
            (Processed(fn_file, i) /\ fn_file.members[i].fault # "none") =>
                /\ str_contains(fn_result.value,
                                EntryLabel(fn_paths[1], fn_file, i)
                                    \o <<"\n[Unreadable file]\n">>)
                /\ \A j \in (i + 1)..Len(fn_file.members) :
                       Processed(fn_file, j) =>
                           str_contains(fn_result.value,
                                        <<"\n## ">>
                                            \o EntryLabel(fn_paths[1], fn_file, j))

\* C4: when read_archive has returned, no temporary file it created is left.
C4_NoTemporaryFileLeft ==
    fn_pc = "returned" => tmpfiles = <<>>

(***************************************************************************)
(* Claims about make_text_from_files and main (Spec)                       *)
(***************************************************************************)
\* the pieces of the document between the "---" separator lines
BlocksOf(t) == str_split(t, "---\n\n")

\* the first line of a block
HeaderOf(block) ==
    IF \A i \in 1..Len(block) : block[i] # "\n" THEN block
    ELSE LET k == CHOOSE i \in 1..Len(block) :
                      block[i] = "\n" /\ \A j \in 1..(i - 1) : block[j] # "\n"
         IN SubSeq(block, 1, k - 1)

\* what follows the first line of a block
BodyOf(block) == SubSeq(block, Len(HeaderOf(block)) + 2, Len(block))

Assembled == pc \in {"assembled", "written", "noticed", "done"}

\* C1: the document make_text_from_files returns holds, after the tree,
\* exactly one content block per path of the list it was given, headed by
\* that path, in the order of the list.
C1_OneBlockPerPathInOrder ==
    Assembled =>
        LET blocks == BlocksOf(text)
            n == Len(filtered_files)
        IN /\ Len(blocks) = n + 2
           /\ blocks[1][1] = "Project structure\n\n"
           /\ \A i \in 1..n :
                 /\ HeaderOf(blocks[i + 1]) = filtered_files[i]
                 /\ BodyOf(blocks[i + 1])[1] \in {"\n~~~\n", "~Archive skipped~\n"}

C1_Witness ==
    /\ pc = "assembled"
    /\ READ_COMPRESSED_FILES
    /\ filtered_files = <<os_path_join(D, <<"b">>), os_path_join(D, P_z_zip)>>
    /\ HeaderOf(BlocksOf(text)[2]) = os_path_join(D, <<"b">>)
    /\ HeaderOf(BlocksOf(text)[3]) = os_path_join(D, P_z_zip)

\* C9: main walks and filters, then assembles the whole document, then
\* opens the output file once and writes the document to it, then prints
\* the success notice, then prints the tree of the filtered list.  The
\* output file is neither opened nor changed before the document is
\* complete, and nothing is printed when assembly or the write failed.
C9_StepsInOrder ==
    /\ pc \in {"start", "walked", "filtered", "assembling", "assembled"} =>
           out_file = OLD_OUTPUT /\ opened = 0 /\ stdout = <<>>
    /\ pc \in {"filtered", "assembling", "assembled", "written", "noticed", "done"} =>
           filtered_files = filter_files(ignore_arg, file_list)
    /\ Assembled =>
           /\ idx = Len(filtered_files) + 1
           /\ Len(BlocksOf(text)) = Len(filtered_files) + 2
    /\ pc \in {"written", "noticed", "done"} => opened = 1 /\ out_file = text
    /\ pc = "written" => stdout = <<>>
    /\ pc = "noticed" => stdout = <<NOTICE>>
    /\ pc = "done" => stdout = <<NOTICE, paths_as_tree(filtered_files)>>
    /\ pc = "crashed" => stdout = <<>> /\ opened <= 1
    /\ stdout # <<>> => exc = None /\ out_file = text

C9_Witness ==
    /\ pc = "done"
    /\ Len(file_list) = 2
    /\ Len(filtered_files) = 1
    /\ opened = 1
    /\ out_file = text
    /\ Len(stdout) = 2

\* t ends with the tokens of suffix
EndsWith(t, suffix) ==
    /\ Len(t) >= Len(suffix)
    /\ SubSeq(t, Len(t) - Len(suffix) + 1, Len(t)) = suffix

\* C10: a file that decodes as text has the content read_file returned for
\* it placed verbatim in its fenced block; the archive / "not a text file"
\* substitution happens only when decoding failed.
C10_TextFilesAreCopiedVerbatim ==
    (pc = "assembling" /\ idx > 1) =>
        LET file == filtered_files[idx - 1]
        IN file_at(file).bad = 0 =>
               EndsWith(text,
                        file \o <<"\n", "\n~~~\n">> \o content_raw
                             \o <<"\n~~~\n", "---\n\n">>)

====
